---- MODULE Spec2Model ----
(***************************************************************************)
(* Model of src/resemble.py: an MCP server ("resemble-server") exposing    *)
(* two tools, generate_tts and list_voices, over the Resemble AI HTTP API. *)
(*                                                                         *)
(* Python values are modelled as follows.                                  *)
(*   - a str that the program inspects character by character (the base64 *)
(*     payload) is a sequence of one-character strings;                    *)
(*   - an f-string is the sequence of its literal and interpolated parts;  *)
(*   - bytes are sequences of integers 0..255;                             *)
(*   - a parsed JSON value is a record [t |-> type, v |-> value];          *)
(*   - an environment variable is a set: {} when unset, {value} when set.  *)
(***************************************************************************)
EXTENDS Integers, Sequences, FiniteSets, TLC

\* ------------------------------------------------------------------ bounds
\* Number of tool invocations the host runtime has in progress at once.
MaxCalls == 2
\* Longest base64 text the remote service puts under audio_content.
MaxB64Len == 4

\* --------------------------------------------------------- module constants
RESEMBLE_SYNTHESIZE_URL == "https://f.cluster.resemble.ai/synthesize"
RESEMBLE_VOICES_URL == "https://app.resemble.ai/api/v2/voices"
SampleRate == 48000
Timeout == 30

\* os.getenv(name, default): the value when the variable is set, else the default.
Getenv(e, default) == IF e = {} THEN default ELSE CHOOSE x \in e : TRUE

\* ------------------------------------------------------------- JSON values
JNull == [t |-> "null", v |-> 0]
JBool(b) == [t |-> "bool", v |-> b]
JNum(n) == [t |-> "num", v |-> n]
JStr(s) == [t |-> "str", v |-> s]
JList(s) == [t |-> "list", v |-> s]
JObj(f) == [t |-> "obj", v |-> f]

\* Python's None, as returned by make_resemble_request on failure.
None == [t |-> "None", v |-> 0]

\* Python truth value of a parsed body (used by `not response`).
Truthy(j) ==
    CASE j.t = "None" -> FALSE
      [] j.t = "null" -> FALSE
      [] j.t = "bool" -> j.v
      [] j.t = "num" -> j.v # 0
      [] j.t = "str" -> Len(j.v) > 0
      [] j.t = "list" -> Len(j.v) > 0
      [] j.t = "obj" -> DOMAIN j.v # {}

\* `key in response`: "yes", "no", or "TypeError" for a value that is no container.
\* A str body is a sequence of parts and holds the key when one of its parts is the key.
Contains(j, key) ==
    CASE j.t = "obj" -> IF key \in DOMAIN j.v THEN "yes" ELSE "no"
      [] j.t = "list" ->
           IF \E i \in 1..Len(j.v) : j.v[i].t = "str" /\ j.v[i].v = <<key>>
           THEN "yes" ELSE "no"
      [] j.t = "str" -> IF \E i \in 1..Len(j.v) : j.v[i] = key THEN "yes" ELSE "no"
      [] OTHER -> "TypeError"

\* `response[key]`: the value for an object, "TypeError" for a list or a str
\* (their indices must be integers).
Subscript(j, key) ==
    IF j.t = "obj" THEN [ok |-> TRUE, val |-> j.v[key]]
    ELSE [ok |-> FALSE, val |-> None]

\* ------------------------------------------------------------------ base64
\* The characters the remote payload is drawn from: an alphabet character, the
\* pad character and one character outside the base64 alphabet.
B64Chars == {"Q", "=", "!"}
Pad == "="
\* table_a2b_base64: the 6-bit value of an alphabet character, 64 and above otherwise.
B64Val(c) ==
    CASE c = "Q" -> 16
      [] c = "U" -> 20
      [] OTHER -> 64

\* binascii.a2b_base64 in its default (non-strict) mode, as base64.b64decode calls
\* it: characters outside the alphabet are skipped, a pad run that completes a
\* quad ends the parse, and data left in an incomplete quad is an error.
\* i: next index, quad: quad_pos, pads: pad count, left: leftchar, out: bytes so far.
RECURSIVE A2b(_, _, _, _, _, _)
A2b(s, i, quad, pads, left, out) ==
    IF i > Len(s)
    THEN IF quad # 0 THEN [ok |-> FALSE, bytes |-> <<>>] ELSE [ok |-> TRUE, bytes |-> out]
    ELSE IF s[i] = Pad
    THEN IF quad >= 2 /\ quad + pads + 1 >= 4
         THEN [ok |-> TRUE, bytes |-> out]
         ELSE A2b(s, i + 1, quad, IF quad >= 2 THEN pads + 1 ELSE pads, left, out)
    ELSE IF B64Val(s[i]) >= 64
    THEN A2b(s, i + 1, quad, pads, left, out)
    ELSE LET c == B64Val(s[i]) IN
         CASE quad = 0 -> A2b(s, i + 1, 1, 0, c, out)
           [] quad = 1 ->
                A2b(s, i + 1, 2, 0, c % 16, Append(out, (left * 4 + c \div 16) % 256))
           [] quad = 2 ->
                A2b(s, i + 1, 3, 0, c % 4, Append(out, (left * 16 + c \div 4) % 256))
           [] quad = 3 ->
                A2b(s, i + 1, 0, 0, 0, Append(out, (left * 64 + c) % 256))

\* base64.b64decode(v): a str is decoded, any other JSON value is a TypeError.
\* err is "" on success, else the exception's type.
B64Decode(j) ==
    IF j.t # "str" THEN [err |-> "TypeError", bytes |-> <<>>]
    ELSE LET r == A2b(j.v, 1, 0, 0, 0, <<>>) IN
         IF r.ok THEN [err |-> "", bytes |-> r.bytes]
         ELSE [err |-> "binascii.Error", bytes |-> <<>>]

\* ------------------------------------------------------------------ inputs
\* An optional argument is a set: {} when the caller omits it, {x} when it passes x.
\* Arg(a, default) is the value the function body sees.
Arg(a, default) == IF a = {} THEN default ELSE CHOOSE x \in a : TRUE

Slots == 1..MaxCalls
EnvValues == {{}, {""}, {"sk-key"}}
\* str(uuid.uuid4())[:8] yields some 8-character id; two stand for all of them.
UuidPrefixes == {"0f8fad5b", "7c9e6679"}
Texts == {"Hello"}
VoiceArgs == {{}, {"55592656"}}
FormatArgs == {{}, {"wav"}}
PageArgs == {{}, {0}, {2}}
PageSizeArgs == {{}, {-5}, {5}}

\* What the remote call can end in. kind "ok" is a 2xx response whose body parsed
\* as JSON; every other kind is an exception raised inside the try block, with
\* msg = str(e) (httpx timeouts carry an empty message).
Ok(body) == [kind |-> "ok", msg |-> "", body |-> body]
Failures ==
    { [kind |-> "connect", msg |-> "All connection attempts failed", body |-> None],
      [kind |-> "timeout", msg |-> "", body |-> None],
      [kind |-> "status", msg |-> "Server error '503 Service Unavailable'", body |-> None],
      [kind |-> "decode", msg |-> "Expecting value: line 1 column 1 (char 0)", body |-> None] }

RECURSIVE B64Strings(_)
B64Strings(n) ==
    IF n = 0 THEN {<<>>}
    ELSE LET shorter == B64Strings(n - 1) IN
         shorter \cup {Append(s, c) : s \in {x \in shorter : Len(x) = n - 1}, c \in B64Chars}

\* JSON bodies of every shape that lack a usable audio field.
PlainBodies ==
    { JNull, JBool(FALSE), JBool(TRUE), JNum(0), JNum(5),
      JStr(<<>>), JStr(<<"audio_content">>), JStr(<<"ok">>),
      JList(<<>>), JList(<<JStr(<<"audio_content">>)>>), JList(<<JNum(1)>>),
      JObj(<<>>), JObj([message |-> JStr(<<"queued">>)]) }
AudioBody(v) == JObj([audio_content |-> v])
\* Every body within the bounds: the audio field holds any base64 text of at most
\* MaxB64Len characters, or a value that is no string.
AllSynthOutcomes ==
    Failures \cup {Ok(b) : b \in PlainBodies}
    \cup {Ok(AudioBody(v)) : v \in {JNull, JNum(7)}}
    \cup {Ok(AudioBody(JStr(s))) : s \in B64Strings(MaxB64Len)}
\* A few bodies, for the runs that interleave invocations.
SomeSynthOutcomes ==
    { o \in Failures : o.kind = "timeout" }
    \cup { Ok(AudioBody(JStr(s))) :
             s \in {<<"Q", "Q", "=", "=">>, <<"Q", "Q", "Q", "=">>, <<"Q">>} }
VoicePage == JObj([success |-> JBool(TRUE), page |-> JNum(2), items |-> JList(<<>>)])
AllListOutcomes == Failures \cup {Ok(b) : b \in PlainBodies \cup {VoicePage}}
SomeListOutcomes == { o \in Failures : o.kind = "status" } \cup {Ok(VoicePage)}

\* ------------------------------------------------------------------- files
\* f"output.{output_format}"
OutputFile(output_format) == <<"output.", output_format>>
Files == {OutputFile(Arg(f, "mp3")) : f \in FormatArgs}
\* Content of a path that does not exist (no byte is negative).
NoFile == <<-1>>
\* open(path, "ab"): the data lands after what the file already held.
WriteAppend(old, data) == IF old = NoFile THEN data ELSE old \o data
\* open(path, "r+b"): no truncation, bytes beyond the new data survive.
WriteInPlace(old, data) ==
    IF old = NoFile \/ Len(old) <= Len(data) THEN data
    ELSE data \o SubSeq(old, Len(data) + 1, Len(old))
\* open(path, "wb") followed by write(data): the file holds data and nothing else.
WriteBinary(old, data) == data

\* env: the RESEMBLE_API_KEY environment variable; defaultVoice: the default of
\* voice_uuid, drawn when the module body ran; mainPc: position in the __main__
\* block; warned: the startup warning was printed; calls: the invocations in
\* progress, by slot; fs: the output files in the working directory; event: the
\* completion that produced this state (slot, remote outcome, files before it).
VARIABLES env, defaultVoice, mainPc, warned, calls, fs, event
vars == <<env, defaultVoice, mainPc, warned, calls, fs, event>>

\* RESEMBLE_API_KEY = os.getenv("RESEMBLE_API_KEY", "Not found")
RESEMBLE_API_KEY == Getenv(env, "Not found")

\* A slot of the host runtime: one tool invocation from its call to the delivery of
\* its result. reqs: the HTTP requests it has issued; log: what it printed;
\* result: the returned value (pc = "returned") or the raised exception's type
\* (pc = "raised").
IdleCall ==
    [pc |-> "idle", op |-> "none", args |-> <<>>, reqs |-> <<>>, log |-> <<>>,
     result |-> None]
NoEvent == [task |-> 0, outcome |-> Ok(None), before |-> [f \in Files |-> NoFile]]

\* ------------------------------------------------------ request construction
\* A second attempt after the first.
SendTwice(request) == <<request, request>>
\* client.post(...) and client.get(...) are awaited once: one request per call.
SendOnce(request) == <<request>>

\* make_resemble_request up to its await: headers, payload and the POST.
SynthesisRequest(text, voice_uuid, output_format) ==
    [method |-> "POST", url |-> RESEMBLE_SYNTHESIZE_URL,
     authorization |-> <<"Bearer ", RESEMBLE_API_KEY>>,
     json |-> [voice_uuid |-> voice_uuid, data |-> text, sample_rate |-> SampleRate,
               output_format |-> output_format],
     timeout |-> Timeout]

\* Pagination checked locally: values below 1 are raised to 1.
VoicesRequestClamped(page, page_size) ==
    [method |-> "GET", url |-> RESEMBLE_VOICES_URL,
     authorization |-> <<"Bearer ", RESEMBLE_API_KEY>>,
     params |-> [page |-> IF page < 1 THEN 1 ELSE page,
                 page_size |-> IF page_size < 1 THEN 1 ELSE page_size],
     timeout |-> Timeout]
\* list_voices up to its await: headers, query parameters and the GET.
VoicesRequest(page, page_size) ==
    [method |-> "GET", url |-> RESEMBLE_VOICES_URL,
     authorization |-> <<"Bearer ", RESEMBLE_API_KEY>>,
     params |-> [page |-> page, page_size |-> page_size],
     timeout |-> Timeout]

\* make_resemble_request after its await: the parsed body, or None with a
\* diagnostic when anything in the try block raised.
SynthesisResponse(o) ==
    IF o.kind = "ok" THEN [value |-> o.body, log |-> <<>>]
    ELSE [value |-> None, log |-> <<"Error making Resemble AI request: ", o.msg>>]

\* ------------------------------------------------------------- generate_tts
FailureText == <<"Unable to generate TTS audio.">>
SavedText(output_file) == <<"TTS audio generated and saved as ">> \o output_file

\* The file opened for writing before the payload is decoded: a decode error
\* leaves it truncated.
GenerateTtsTailOpenFirst(response, output_format, files) ==
    LET raise(e, fl) == [pc |-> "raised", result |-> <<e>>, files |-> fl]
        fail == [pc |-> "returned", result |-> FailureText, files |-> files]
    IN  IF ~Truthy(response) THEN fail
        ELSE IF Contains(response, "audio_content") = "TypeError"
        THEN raise("TypeError", files)
        ELSE IF Contains(response, "audio_content") = "no" THEN fail
        ELSE IF ~Subscript(response, "audio_content").ok THEN raise("TypeError", files)
        ELSE LET audio == B64Decode(Subscript(response, "audio_content").val)
                 output_file == OutputFile(output_format)
             IN  IF audio.err # ""
                 THEN raise(audio.err, [files EXCEPT ![output_file] = <<>>])
                 ELSE [pc |-> "returned", result |-> SavedText(output_file),
                       files |-> [files EXCEPT
                                    ![output_file] = WriteBinary(@, audio.bytes)]]
\* generate_tts after `response = await make_resemble_request(...)`: no await
\* follows, so the rest runs in one step of the event loop.
GenerateTtsTail(response, output_format, files) ==
    LET raise(e) == [pc |-> "raised", result |-> <<e>>, files |-> files]
        fail == [pc |-> "returned", result |-> FailureText, files |-> files]
    IN  IF ~Truthy(response) THEN fail
        ELSE IF Contains(response, "audio_content") = "TypeError" THEN raise("TypeError")
        ELSE IF Contains(response, "audio_content") = "no" THEN fail
        ELSE IF ~Subscript(response, "audio_content").ok THEN raise("TypeError")
        ELSE LET audio == B64Decode(Subscript(response, "audio_content").val)
                 output_file == OutputFile(output_format)
             IN  IF audio.err # "" THEN raise(audio.err)
                 ELSE [pc |-> "returned", result |-> SavedText(output_file),
                       files |-> [files EXCEPT
                                    ![output_file] = WriteBinary(@, audio.bytes)]]

\* A default drawn inside the call: an id other than the one drawn at registration.
VoiceUuidFresh(voice_arg) ==
    Arg(voice_arg, CHOOSE u \in UuidPrefixes : u # defaultVoice)
\* The voice id the body of generate_tts sees: the default was evaluated once,
\* when the def statement ran, and is the same object on every call.
VoiceUuid(voice_arg) == Arg(voice_arg, defaultVoice)

GenerateTtsCall(t, text, voice_arg, format_arg) ==
    /\ mainPc = "serving"
    /\ calls[t].pc = "idle"
    /\ LET voice_uuid == VoiceUuid(voice_arg)
           output_format == Arg(format_arg, "mp3")
       IN calls' = [calls EXCEPT ![t] =
             [pc |-> "awaiting", op |-> "generate_tts",
              args |-> [text |-> text, voice_uuid |-> voice_arg,
                        output_format |-> format_arg],
              reqs |-> SendOnce(SynthesisRequest(text, voice_uuid, output_format)),
              log |-> <<>>, result |-> None]]
    /\ event' = NoEvent
    /\ UNCHANGED <<env, defaultVoice, mainPc, warned, fs>>

GenerateTtsResume(t, o) ==
    /\ calls[t].pc = "awaiting"
    /\ calls[t].op = "generate_tts"
    /\ LET r == SynthesisResponse(o)
           tail == GenerateTtsTail(r.value, Arg(calls[t].args.output_format, "mp3"), fs)
       IN /\ calls' = [calls EXCEPT ![t].pc = tail.pc, ![t].log = r.log,
                                     ![t].result = tail.result]
          /\ fs' = tail.files
    /\ event' = [task |-> t, outcome |-> o, before |-> fs]
    /\ UNCHANGED <<env, defaultVoice, mainPc, warned>>

\* -------------------------------------------------------------- list_voices
\* The exception's text alone.
ErrorMessageBare(e) == <<e>>
\* f"Error retrieving voices: {str(e)}"
ErrorMessage(e) == <<"Error retrieving voices: ", e>>

\* list_voices after its await: the parsed body unchanged, or {"error": ...}.
ListVoicesTail(o) ==
    IF o.kind = "ok" THEN [result |-> o.body, log |-> <<>>]
    ELSE [result |-> JObj([error |-> JStr(ErrorMessage(o.msg))]),
          log |-> ErrorMessage(o.msg)]

ListVoicesCall(t, page_arg, page_size_arg) ==
    /\ mainPc = "serving"
    /\ calls[t].pc = "idle"
    /\ calls' = [calls EXCEPT ![t] =
          [pc |-> "awaiting", op |-> "list_voices",
           args |-> [page |-> page_arg, page_size |-> page_size_arg],
           reqs |-> SendOnce(VoicesRequest(Arg(page_arg, 1), Arg(page_size_arg, 10))),
           log |-> <<>>, result |-> None]]
    /\ event' = NoEvent
    /\ UNCHANGED <<env, defaultVoice, mainPc, warned, fs>>

ListVoicesResume(t, o) ==
    /\ calls[t].pc = "awaiting"
    /\ calls[t].op = "list_voices"
    /\ LET tail == ListVoicesTail(o)
       IN calls' = [calls EXCEPT ![t].pc = "returned", ![t].log = tail.log,
                                 ![t].result = tail.result]
    /\ event' = [task |-> t, outcome |-> o, before |-> fs]
    /\ UNCHANGED <<env, defaultVoice, mainPc, warned, fs>>

\* The host runtime hands the result (or the fault) to its client; the slot is free.
Deliver(t) ==
    /\ calls[t].pc \in {"returned", "raised"}
    /\ calls' = [calls EXCEPT ![t] = IdleCall]
    /\ event' = NoEvent
    /\ UNCHANGED <<env, defaultVoice, mainPc, warned, fs>>

\* ------------------------------------------------------------ process entry
\* if not RESEMBLE_API_KEY: the warning is printed for a falsy (empty) key.
NeedsWarning(key) == key = ""

MainCheck ==
    /\ mainPc = "main"
    /\ warned' = NeedsWarning(RESEMBLE_API_KEY)
    /\ mainPc' = "run"
    /\ UNCHANGED <<env, defaultVoice, calls, fs, event>>

\* mcp.run(transport='stdio'): from here on the tools are served.
McpRun ==
    /\ mainPc = "run"
    /\ mainPc' = "serving"
    /\ UNCHANGED <<env, defaultVoice, warned, calls, fs, event>>

\* The state once the module body has run (lines 1 to 134): the environment is
\* read, the default voice id is drawn, nothing is served yet.
Init ==
    /\ env \in EnvValues
    /\ defaultVoice \in UuidPrefixes
    /\ mainPc = "main"
    /\ warned = FALSE
    /\ calls = [t \in Slots |-> IdleCall]
    /\ fs = [f \in Files |-> NoFile]
    /\ event = NoEvent

\* cfg.slots: the slots in use; cfg.tts, cfg.list: the argument lists the callers
\* pass; cfg.synth, cfg.voices: what the remote call can end in.
Step(cfg) ==
    \/ MainCheck
    \/ McpRun
    \/ \E t \in cfg.slots, a \in cfg.tts : GenerateTtsCall(t, a[1], a[2], a[3])
    \/ \E t \in cfg.slots, o \in cfg.synth : GenerateTtsResume(t, o)
    \/ \E t \in cfg.slots, a \in cfg.list : ListVoicesCall(t, a[1], a[2])
    \/ \E t \in cfg.slots, o \in cfg.voices : ListVoicesResume(t, o)
    \/ \E t \in cfg.slots : Deliver(t)

\* Invocations overlap; the callers and the remote use a few representative values.
Next ==
    Step([slots |-> Slots,
          tts |-> {<<"Hello", {}, {}>>, <<"Hello", {"55592656"}, {}>>, <<"Hello", {}, {"wav"}>>},
          list |-> {<<{}, {}>>},
          synth |-> SomeSynthOutcomes,
          voices |-> SomeListOutcomes])
\* The deployed process: a credential is configured.
ConfiguredInit == Init /\ env = {"sk-key"}
Spec == ConfiguredInit /\ [][Next]_vars

\* One invocation at a time; every argument list and every remote outcome within
\* the bounds.
SerialNext ==
    Step([slots |-> {1},
          tts |-> Texts \X VoiceArgs \X FormatArgs,
          list |-> PageArgs \X PageSizeArgs,
          synth |-> AllSynthOutcomes,
          voices |-> AllListOutcomes])
SerialSpec == Init /\ [][SerialNext]_vars
\* =================================================================== claims
\* What the claims speak of. event records the completion that produced the
\* current state: the slot, what the remote call ended in, the files before it.
Completed(t, op) == event.task = t /\ calls[t].op = op
FormatOf(t) == Arg(calls[t].args.output_format, "mp3")
\* The file name the specification promises, spelt out.
PromisedFile(t) == <<"output.", FormatOf(t)>>
HasAudioField(b) == b.t = "obj" /\ "audio_content" \in DOMAIN b.v
AudioText(b) == b.v.audio_content.v
HasAudioText(b) == HasAudioField(b) /\ b.v.audio_content.t = "str"
\* The returned text holds the file name as a contiguous part.
NamesFile(text, file) ==
    \E i \in 1..Len(text) :
        i + Len(file) - 1 <= Len(text) /\ SubSeq(text, i, i + Len(file) - 1) = file

\* Base64 as RFC 4648 defines it, independent of the decoder's code: whole quads
\* of alphabet characters, the last one possibly ending in "=" or "==".
IsAlpha(c) == c \in {"Q", "U"}
Sextet(c) == IF c = "Q" THEN 16 ELSE 20
WellFormed(s) ==
    /\ Len(s) % 4 = 0
    /\ \A i \in 1..Len(s) : IsAlpha(s[i]) \/ (s[i] = "=" /\ i >= Len(s) - 1)
    /\ Len(s) > 0 /\ s[Len(s) - 1] = "=" => s[Len(s)] = "="
RECURSIVE RefBytes(_)
RefBytes(d) ==
    LET b1 == Sextet(d[1]) * 4 + Sextet(d[2]) \div 16
        b2 == (Sextet(d[2]) % 16) * 16 + Sextet(d[3]) \div 4
        b3 == (Sextet(d[3]) % 4) * 64 + Sextet(d[4])
    IN  IF Len(d) >= 4 THEN <<b1, b2, b3>> \o RefBytes(SubSeq(d, 5, Len(d)))
        ELSE IF Len(d) = 3 THEN <<b1, b2>>
        ELSE IF Len(d) = 2 THEN <<b1>>
        ELSE <<>>
RefDecode(s) == RefBytes(SelectSeq(s, IsAlpha))

\* C1: a synthesis whose remote call returns a 2xx JSON object holding valid
\* base64 under audio_content returns, leaves exactly the decoded bytes in
\* output.<outputFormat> (whatever the file held before) and names that file in
\* the returned string.
C1_SavesDecodedAudio ==
    \A t \in Slots :
        ( /\ Completed(t, "generate_tts")
          /\ event.outcome.kind = "ok"
          /\ HasAudioText(event.outcome.body)
          /\ WellFormed(AudioText(event.outcome.body)) )
        => /\ calls[t].pc = "returned"
           /\ fs[PromisedFile(t)] = RefDecode(AudioText(event.outcome.body))
           /\ NamesFile(calls[t].result, PromisedFile(t))
\* A valid payload has just replaced different, older content of the file.
C1_Witness ==
    \E t \in Slots :
        /\ Completed(t, "generate_tts")
        /\ event.outcome.kind = "ok"
        /\ HasAudioText(event.outcome.body)
        /\ WellFormed(AudioText(event.outcome.body))
        /\ Len(AudioText(event.outcome.body)) > 0
        /\ event.before[PromisedFile(t)] # NoFile
        /\ Len(event.before[PromisedFile(t)]) > Len(fs[PromisedFile(t)])

\* C2: a synthesis whose remote call fails, or whose response is empty or lacks
\* the audio_content field, returns exactly "Unable to generate TTS audio." and
\* leaves every file as it was.
C2_FailureTextNoWrite ==
    \A t \in Slots :
        ( /\ Completed(t, "generate_tts")
          /\ \/ event.outcome.kind # "ok"
             \/ ~HasAudioField(event.outcome.body) )
        => /\ calls[t].pc = "returned"
           /\ calls[t].result = <<"Unable to generate TTS audio.">>
           /\ fs = event.before

\* C3: whatever the remote call ends in, a synthesis ends by returning a string,
\* never by raising.
C3_NeverRaises ==
    \A t \in Slots : calls[t].op = "generate_tts" => calls[t].pc # "raised"

\* C4: a listing whose remote call fails returns a mapping whose only key is
\* error, holding a non-empty string.
C4_ErrorMapping ==
    \A t \in Slots :
        (Completed(t, "list_voices") /\ event.outcome.kind # "ok")
        => /\ calls[t].pc = "returned"
           /\ calls[t].result.t = "obj"
           /\ DOMAIN calls[t].result.v = {"error"}
           /\ calls[t].result.v.error.t = "str"
           /\ \E i \in 1..Len(calls[t].result.v.error.v) :
                 calls[t].result.v.error.v[i] # ""
\* A listing has just failed on an exception whose text is empty.
C4_Witness ==
    \E t \in Slots :
        /\ Completed(t, "list_voices")
        /\ event.outcome.kind = "timeout"
        /\ event.outcome.msg = ""
        /\ calls[t].pc = "returned"

\* C5: an invocation issues exactly one remote request, whatever its outcome: no
\* second attempt after a failure, and no result reused in place of a request.
C5_OneRequestEach ==
    \A t \in Slots :
        /\ calls[t].pc = "idle" => Len(calls[t].reqs) = 0
        /\ calls[t].pc # "idle" => Len(calls[t].reqs) = 1
\* Two identical listings, the first already answered when the second fails:
\* each holds its own request.
C5_Witness ==
    \E t, u \in Slots :
        /\ t # u
        /\ calls[t].op = "list_voices" /\ calls[u].op = "list_voices"
        /\ calls[t].args = calls[u].args
        /\ calls[t].pc = "returned" /\ calls[t].result = VoicePage
        /\ event.task = u /\ event.outcome.kind # "ok"
        /\ Len(calls[t].reqs) = 1 /\ Len(calls[u].reqs) = 1

\* C6: a listing never fails locally on its arguments; the request carries page
\* and page_size exactly as given (zero and negative values included), and a
\* successful response body is returned unchanged.
C6_PassThrough ==
    \A t \in Slots :
        calls[t].op = "list_voices"
        => /\ calls[t].pc # "raised"
           /\ \A x \in calls[t].args.page : calls[t].reqs[1].params.page = x
           /\ \A x \in calls[t].args.page_size : calls[t].reqs[1].params.page_size = x
           /\ (event.task = t /\ event.outcome.kind = "ok")
              => (calls[t].pc = "returned" /\ calls[t].result = event.outcome.body)
\* page = 0 and page_size = -5 were sent and the remote's page came back.
C6_Witness ==
    \E t \in Slots :
        /\ Completed(t, "list_voices")
        /\ calls[t].args = [page |-> {0}, page_size |-> {-5}]
        /\ calls[t].reqs[1].params = [page |-> 0, page_size |-> -5]
        /\ event.outcome = Ok(VoicePage)
        /\ calls[t].result = VoicePage

\* C7: when no credential is configured in the environment, the warning has
\* been printed by the time the process serves tool invocations.
C7_WarnsWhenUnset ==
    (env = {} /\ mainPc = "serving") => warned

\* C8 as stated: audio_content that is malformed base64 makes the synthesis
\* raise, and the output file is neither created nor modified.
C8_MalformedRaises ==
    \A t \in Slots :
        ( /\ Completed(t, "generate_tts")
          /\ event.outcome.kind = "ok"
          /\ HasAudioText(event.outcome.body)
          /\ ~WellFormed(AudioText(event.outcome.body)) )
        => (calls[t].pc = "raised" /\ fs = event.before)
\* C8 as amended: audio_content that base64.b64decode rejects makes the
\* synthesis raise that decoder's exception, and no file is created or modified.
C8_RejectedRaises ==
    \A t \in Slots :
        ( /\ Completed(t, "generate_tts")
          /\ event.outcome.kind = "ok"
          /\ HasAudioField(event.outcome.body)
          /\ B64Decode(event.outcome.body.v.audio_content).err # "" )
        => /\ calls[t].pc = "raised"
           /\ calls[t].result = <<B64Decode(event.outcome.body.v.audio_content).err>>
           /\ fs = event.before
\* A payload with one data character too many was rejected while the output
\* file held earlier audio.
C8_Witness ==
    \E t \in Slots :
        /\ Completed(t, "generate_tts")
        /\ event.outcome.kind = "ok"
        /\ HasAudioText(event.outcome.body)
        /\ B64Decode(event.outcome.body.v.audio_content).err = "binascii.Error"
        /\ calls[t].pc = "raised"
        /\ Len(event.before[PromisedFile(t)]) = 2

\* C9: every synthesis that omits voiceId sends the one voice_uuid fixed at
\* registration, so any two of them send the same value; a synthesis that
\* supplies voiceId sends exactly the supplied value.
C9_DefaultVoiceFixed ==
    /\ \A t \in Slots :
          calls[t].op = "generate_tts"
          => /\ calls[t].args.voice_uuid = {}
                => calls[t].reqs[1].json.voice_uuid = defaultVoice
             /\ \A x \in calls[t].args.voice_uuid : calls[t].reqs[1].json.voice_uuid = x
    /\ \A t, u \in Slots :
          ( /\ calls[t].op = "generate_tts" /\ calls[u].op = "generate_tts"
            /\ calls[t].args.voice_uuid = {} /\ calls[u].args.voice_uuid = {} )
          => calls[t].reqs[1].json.voice_uuid = calls[u].reqs[1].json.voice_uuid
\* Two synthesis invocations without voiceId, one answered and one in flight.
C9_Witness ==
    \E t, u \in Slots :
        /\ t # u
        /\ calls[t].op = "generate_tts" /\ calls[u].op = "generate_tts"
        /\ calls[t].args.voice_uuid = {} /\ calls[u].args.voice_uuid = {}
        /\ calls[t].pc = "returned" /\ calls[u].pc = "awaiting"

\* C10: with synthesis invocations overlapping on one output format, the file
\* always holds one complete decoded payload, that of the successful invocation
\* that finished last: a completion either leaves every file as it was or
\* replaces its own file, whole, by its payload.
CompletePayloads ==
    { B64Decode(o.body.v.audio_content).bytes :
        o \in { x \in SomeSynthOutcomes :
                  x.kind = "ok" /\ B64Decode(x.body.v.audio_content).err = "" } }
C10_LastFinisherOwnsFile ==
    /\ \A f \in Files : fs[f] = NoFile \/ fs[f] \in CompletePayloads
    /\ \A t \in Slots :
          Completed(t, "generate_tts")
          => IF calls[t].pc = "returned" /\ calls[t].result # FailureText
             THEN fs = [event.before EXCEPT ![PromisedFile(t)] =
                          B64Decode(event.outcome.body.v.audio_content).bytes]
             ELSE fs = event.before
\* Two answered invocations on one file: the earlier confirmation still names
\* the file, which now holds the later finisher's different audio.
C10_Witness ==
    \E t, u \in Slots :
        /\ t # u
        /\ calls[t].op = "generate_tts" /\ calls[u].op = "generate_tts"
        /\ PromisedFile(t) = PromisedFile(u)
        /\ calls[t].pc = "returned" /\ NamesFile(calls[t].result, PromisedFile(t))
        /\ event.task = u
        /\ calls[u].pc = "returned" /\ NamesFile(calls[u].result, PromisedFile(u))
        /\ fs[PromisedFile(u)] # event.before[PromisedFile(u)]
        /\ event.before[PromisedFile(u)] # NoFile
====
